---- MODULE Spec2Model ----
(***************************************************************************)
(* Model of the tokenizer core (crates/llm-base/src/tokenizer.rs) and of   *)
(* the GGUF container loader (crates/ggml/src/format/gguf/mod.rs).         *)
(*                                                                         *)
(* Bytes are natural numbers, byte strings are sequences of bytes, token   *)
(* ids are naturals (u32 in the source; the model never gets near 2^32).   *)
(* Rust vectors are 0-indexed, TLA+ sequences 1-indexed: v[i] in the       *)
(* source is v[i + 1] here.                                                *)
(***************************************************************************)
EXTENDS Integers, Sequences, FiniteSets, TLC

VARIABLES
    \* EmbeddedTokenizer (tokenizer.rs:195-209)
    id_to_token,        \* Vec<Token>
    id_to_token_score,  \* Vec<TokenScore>
    token_to_id,        \* HashMap<Token, TokenId>, a function on its key set
    max_token_length,   \* usize
    pushed,             \* the id given to the last push_token call
    \* the caller of the tokenizer
    pc,                 \* "load" | "tokenized" | "decoded" | "resolved" | "panicked"
    text,               \* argument of the last tokenize call
    bos,                \* argument of the last tokenize call
    tok_result,         \* its Result<Vec<(Vec<u8>, TokenId)>, TokenizationError>
    dec_skip,           \* skip_special_tokens of the last decode call
    decoded,            \* bytes returned by the last decode call
    prompt,             \* the Prompt given to the last to_tokens call
    prompt_result,      \* its Result<Vec<TokenId>, TokenizationError>
    \* TokenBias (tokenizer.rs:485) and its caller
    bias_input,         \* the Vec given to TokenBias::new
    bias_table,         \* TokenBias.0, or None before construction
    bias_query,         \* argument of the last get call
    bias_got,           \* its Option<f32>
    \* one call of Gguf::load (gguf/mod.rs:54-98) and the reader it is given
    ld_pc,              \* "header" | "counts" | "metadata" | "tensors" | "position"
                        \* | "done" | "failed" | "panicked"
    ld_read,            \* what the reader returned to the last read
    ld_ctx,             \* GgufContext
    ld_counts,          \* tensor_count and metadata_kv_count
    ld_kv_read,         \* iterations of the metadata loop completed
    ld_tensors_read,    \* iterations of the tensor loop completed
    ld_metadata,        \* HashMap<String, MetadataValue>
    ld_tensor_infos,    \* HashMap<String, TensorInfo>
    ld_result           \* Result<Gguf, GgufLoadError> returned by load

tokVars == <<id_to_token, id_to_token_score, token_to_id, max_token_length>>
callVars == <<text, bos, tok_result, dec_skip, decoded, prompt, prompt_result>>
biasVars == <<bias_input, bias_table, bias_query, bias_got>>
ldVars == <<ld_pc, ld_read, ld_ctx, ld_counts, ld_kv_read, ld_tensors_read,
            ld_metadata, ld_tensor_infos, ld_result>>
vars == <<id_to_token, id_to_token_score, token_to_id, max_token_length, pushed,
          pc, text, bos, tok_result, dec_skip, decoded, prompt, prompt_result,
          bias_input, bias_table, bias_query, bias_got,
          ld_pc, ld_read, ld_ctx, ld_counts, ld_kv_read, ld_tensors_read,
          ld_metadata, ld_tensor_infos, ld_result>>

----------------------------------------------------------------------------
(* Bounds and input sets *)

MaxVocab == 3       \* most tokens pushed into one vocabulary
MaxTextLen == 4     \* longest text given to tokenize
MaxPromptLen == 2   \* longest explicit token list given to to_tokens

Alphabet == {97, 98}

\* Token contents offered to push_token: the empty token, single bytes, and
\* overlapping multi-byte tokens, so that texts have several partitions.
TokenPool == {<<>>, <<97>>, <<98>>, <<97, 98>>, <<97, 97>>, <<97, 97, 97>>}

\* f32 scores offered to push_token (tokenize never reads them)
Scores == {0, 1}

\* ids offered to push_token: the right one and wrong ones
PushIds == 0 .. MaxVocab + 2

SeqsUpTo(S, n) == UNION {[1 .. k -> S] : k \in 0 .. n}

Texts == SeqsUpTo(Alphabet, MaxTextLen)

Min(a, b) == IF a < b THEN a ELSE b
\* the maximum replaced by plain assignment of the newest length
MaxKeepsLast(a, b) == b

Max(a, b) == IF a < b THEN b ELSE a

None == [kind |-> "None"]
Ok(v) == [kind |-> "Ok", val |-> v]
Err(e) == [kind |-> "Err", err |-> e]
Panic(m) == [kind |-> "Panic", msg |-> m]

----------------------------------------------------------------------------
(* EmbeddedTokenizer::push_token *)

\* HashMap::insert: the new value replaces an earlier one under the same key
MapInsert(m, k, v) == [x \in DOMAIN m \cup {k} |-> IF x = k THEN v ELSE m[x]]

\* push_token with the check weakened: any id not below the size is accepted
PushAcceptsLoose(id) ==
    /\ Len(id_to_token) = Len(id_to_token_score)
    /\ Len(id_to_token) <= id

\* the check that guards push_token (lines 222-226)
PushAccepts(id) ==
    /\ Len(id_to_token) = Len(id_to_token_score)
    /\ Len(id_to_token) = id
    /\ Len(id_to_token_score) = id

PushToken(id, content, score) ==
    /\ pc = "load"
    /\ pushed' = [kind |-> "Some", id |-> id]
    /\ IF PushAccepts(id)
       THEN /\ Len(id_to_token) < MaxVocab
            /\ max_token_length' = Max(max_token_length, Len(content))
            /\ id_to_token' = Append(id_to_token, content)
            /\ id_to_token_score' = Append(id_to_token_score, score)
            /\ token_to_id' = MapInsert(token_to_id, content, id)
            /\ pc' = "load"
       ELSE /\ pc' = "panicked"
            /\ UNCHANGED tokVars
    /\ UNCHANGED <<callVars, biasVars, ldVars>>

----------------------------------------------------------------------------
(* EmbeddedTokenizer::tokenize *)

\* &text.as_bytes()[i..i + sub_len]
Sub(t, i, sub_len) == SubSeq(t, i + 1, i + sub_len)

\* the inner loop body without the comparison: the last candidate wins
RelaxLastWins(t, i, sub_len, st) ==
    LET sub == Sub(t, i, sub_len) IN
    IF sub \in DOMAIN token_to_id
    THEN LET token_score == Len(sub) * Len(sub)
             local_score == st.score[i] + token_score
             next == i + sub_len
         IN [score |-> [st.score EXCEPT ![next] = local_score],
             prev |-> [st.prev EXCEPT ![next] = token_to_id[sub]]]
    ELSE st

\* body of the inner loop (lines 270-282); st = [score, prev], both 0..len
Relax(t, i, sub_len, st) ==
    LET sub == Sub(t, i, sub_len) IN
    IF sub \in DOMAIN token_to_id
    THEN LET token_score == Len(sub) * Len(sub)
             local_score == st.score[i] + token_score
             next == i + sub_len
         IN IF st.score[next] < local_score
            THEN [score |-> [st.score EXCEPT ![next] = local_score],
                  prev |-> [st.prev EXCEPT ![next] = token_to_id[sub]]]
            ELSE st
    ELSE st

RECURSIVE InnerLoop(_, _, _, _, _)
\* for sub_len in 1..=max_len (line 269)
InnerLoop(t, i, sub_len, max_len, st) ==
    IF sub_len > max_len THEN st
    ELSE InnerLoop(t, i, sub_len + 1, max_len, Relax(t, i, sub_len, st))

RECURSIVE ForwardPass(_, _, _)
\* for i in 0..len (lines 267-284)
ForwardPass(t, i, st) ==
    IF i >= Len(t) THEN st
    ELSE ForwardPass(t, i + 1,
            InnerLoop(t, i, 1, Min(Len(t) - i, max_token_length), st))

RECURSIVE BackwardPass(_, _, _)
\* while i > 0 (lines 287-302); res is built in reverse text order
BackwardPass(prev, i, res) ==
    IF i = 0 THEN Ok(res)
    ELSE LET token_id == prev[i] IN
         IF token_id = 0 THEN Err("TokenizationFailed")
         ELSE LET token == id_to_token[token_id + 1] IN
              IF Len(token) > i THEN Panic("attempt to subtract with overflow")
              ELSE BackwardPass(prev, i - Len(token), Append(res, <<token, token_id>>))

Reverse(s) == [k \in 1 .. Len(s) |-> s[Len(s) + 1 - k]]

\* the whole function (lines 257-313)
\* the beginning-of-sequence pair pushed after res.reverse() instead of before
tokenize_bos_after_reverse(t, b) ==
    LET len == Len(t)
        st0 == [score |-> [k \in 0 .. len |-> 0], prev |-> [k \in 0 .. len |-> 0]]
        st == ForwardPass(t, 0, st0)
        back == BackwardPass(st.prev, len, <<>>)
    IN IF back.kind = "Ok"
       THEN Ok(IF b THEN Append(Reverse(back.val), <<<<>>, 1>>) ELSE Reverse(back.val))
       ELSE back

tokenize(t, b) ==
    LET len == Len(t)
        st0 == [score |-> [k \in 0 .. len |-> 0], prev |-> [k \in 0 .. len |-> 0]]
        st == ForwardPass(t, 0, st0)
        back == BackwardPass(st.prev, len, <<>>)
    IN IF back.kind = "Ok"
       THEN Ok(Reverse(IF b THEN Append(back.val, <<<<>>, 1>>) ELSE back.val))
       ELSE back

Tokenize(t, b) ==
    /\ pc = "load"
    /\ text' = t
    /\ bos' = b
    /\ tok_result' = tokenize(t, b)
    /\ pc' = IF tok_result'.kind = "Panic" THEN "panicked" ELSE "tokenized"
    /\ UNCHANGED <<tokVars, pushed, dec_skip, decoded, prompt, prompt_result, biasVars, ldVars>>

----------------------------------------------------------------------------
(* EmbeddedTokenizer::decode *)

Ids(pairs) == [k \in 1 .. Len(pairs) |-> pairs[k][2]]

RECURSIVE decode_from(_, _, _, _)
\* for token in tokens (lines 319-325), vec is the accumulator
decode_from(tokens, k, skip_special_tokens, vec) ==
    IF k > Len(tokens) THEN Ok(vec)
    ELSE LET token == tokens[k] IN
         IF skip_special_tokens /\ token = 1
         THEN decode_from(tokens, k + 1, skip_special_tokens, vec)
         ELSE IF token >= Len(id_to_token)
              THEN Panic("index out of bounds")
              ELSE decode_from(tokens, k + 1, skip_special_tokens,
                               vec \o id_to_token[token + 1])

decode(tokens, skip_special_tokens) == decode_from(tokens, 1, skip_special_tokens, <<>>)

\* the caller decodes the ids a successful tokenize call returned
Decode(skip) ==
    /\ pc = "tokenized"
    /\ tok_result.kind = "Ok"
    /\ dec_skip' = skip
    /\ decoded' = decode(Ids(tok_result.val), skip)
    /\ pc' = IF decoded'.kind = "Panic" THEN "panicked" ELSE "decoded"
    /\ UNCHANGED <<tokVars, pushed, text, bos, tok_result, prompt, prompt_result, biasVars, ldVars>>

----------------------------------------------------------------------------
(* Prompt::to_tokens against Tokenizer::Embedded *)

\* ids offered in an explicit token list: ids of the vocabulary and ids beyond it
PromptIds == 0 .. MaxVocab

Prompts ==
    {[kind |-> "Tokens", tokens |-> ts] : ts \in SeqsUpTo(PromptIds, MaxPromptLen)}
    \cup {[kind |-> "Text", text |-> t] : t \in Texts}

\* EmbeddedTokenizer::token (lines 239-241): id_to_token[idx].clone()
token(idx) ==
    IF idx >= Len(id_to_token) THEN Panic("index out of bounds")
    ELSE Ok(id_to_token[idx + 1])

RECURSIVE find_empty(_, _)
\* tokens.iter().copied().find(|t| vocab.token(*t as usize).is_empty())
\* (lines 438-441): Ok(None) when no id is found
find_empty(tokens, k) ==
    IF k > Len(tokens) THEN Ok(None)
    ELSE LET tk == token(tokens[k]) IN
         IF tk.kind = "Panic" THEN tk
         ELSE IF tk.val = <<>> THEN Ok([kind |-> "Some", val |-> tokens[k]])
         ELSE find_empty(tokens, k + 1)

\* the whole function (lines 426-448)
to_tokens(p, beginning_of_sentence) ==
    IF p.kind = "Text"
    THEN LET r == tokenize(p.text, beginning_of_sentence) IN
         IF r.kind = "Ok" THEN Ok(Ids(r.val)) ELSE r
    ELSE LET found == find_empty(p.tokens, 1) IN
         IF found.kind = "Panic" THEN found
         ELSE IF found.val.kind = "Some"
              THEN Err([name |-> "InvalidTokenId", id |-> found.val.val])
              ELSE Ok(p.tokens)

ToTokens(p, b) ==
    /\ pc = "load"
    /\ prompt' = p
    /\ bos' = b
    /\ prompt_result' = to_tokens(p, b)
    /\ pc' = IF prompt_result'.kind = "Panic" THEN "panicked" ELSE "resolved"
    /\ UNCHANGED <<tokVars, pushed, text, tok_result, dec_skip, decoded, biasVars, ldVars>>

----------------------------------------------------------------------------
(* TokenBias *)

MaxBiasLen == 3     \* longest list given to TokenBias::new

BiasIds == {1, 2, 3}

\* f32 biases in tenths: -1.0, 0.5, 0.9
BiasValues == {-10, 5, 9}

BiasLists == SeqsUpTo(BiasIds \X BiasValues, MaxBiasLen)

\* token ids asked of get: ids of the lists and one that is in none
BiasQueries == BiasIds \cup {0}

RECURSIVE InsertStable(_, _)
\* e placed after every element whose key is not greater than its own
InsertStable(sorted, e) ==
    IF sorted = <<>> THEN <<e>>
    ELSE IF Head(sorted)[1] <= e[1]
         THEN <<Head(sorted)>> \o InsertStable(Tail(sorted), e)
         ELSE <<e>> \o sorted

RECURSIVE sort_from(_, _, _)
sort_from(v, k, sorted) ==
    IF k > Len(v) THEN sorted ELSE sort_from(v, k + 1, InsertStable(sorted, v[k]))

\* v.sort_by_cached_key(|(tid, _)| *tid) (line 495): a stable sort by id
sort_by_cached_key(v) == sort_from(v, 1, <<>>)

RECURSIVE dedup_from(_, _, _)
dedup_from(v, k, kept) ==
    IF k > Len(v) THEN kept
    ELSE IF kept # <<>> /\ kept[Len(kept)][1] = v[k][1]
         THEN dedup_from(v, k + 1, kept)
         ELSE dedup_from(v, k + 1, Append(kept, v[k]))

RECURSIVE dedup_last_from(_, _, _)
dedup_last_from(v, k, kept) ==
    IF k > Len(v) THEN kept
    ELSE IF kept # <<>> /\ kept[Len(kept)][1] = v[k][1]
         THEN dedup_last_from(v, k + 1, [kept EXCEPT ![Len(kept)] = v[k]])
         ELSE dedup_last_from(v, k + 1, Append(kept, v[k]))

\* a dedup that keeps the last of consecutive elements with the same id
dedup_keep_last(v) == dedup_last_from(v, 1, <<>>)

\* v.dedup_by_key(|(tid, _)| *tid) (line 496): of consecutive elements with the
\* same id, all but the first are removed
dedup_by_key(v) == dedup_from(v, 1, <<>>)

\* TokenBias::new (lines 494-498)
TokenBiasNew(v) == dedup_by_key(sort_by_cached_key(v))

RECURSIVE search_loop(_, _, _, _)
\* the loop of slice::binary_search_by: [left, right) is the range still to search
search_loop(table, tid, left, right) ==
    IF left >= right THEN Err(left)
    ELSE LET mid == left + (right - left) \div 2 IN
         IF table[mid + 1][1] < tid THEN search_loop(table, tid, mid + 1, right)
         ELSE IF table[mid + 1][1] > tid THEN search_loop(table, tid, left, mid)
         ELSE Ok(mid)

\* a binary search that leaves the last element out of its range
binary_search_short(table, tid) == search_loop(table, tid, 0, Len(table) - 1)

\* self.0.binary_search_by_key(&tid, |(tid, _)| *tid) (line 503)
binary_search_by_key(table, tid) == search_loop(table, tid, 0, Len(table))

\* TokenBias::get (lines 501-506)
TokenBiasGet(table, tid) ==
    LET found == binary_search_by_key(table, tid) IN
    IF found.kind = "Ok" THEN [kind |-> "Some", val |-> table[found.val + 1][2]]
    ELSE None

BiasNew(v) ==
    /\ bias_table = None
    /\ bias_input' = v
    /\ bias_table' = Ok(TokenBiasNew(v))
    /\ UNCHANGED <<bias_query, bias_got>>
    /\ UNCHANGED <<tokVars, pushed, pc, callVars, ldVars>>

\* TokenBias::empty (lines 489-491)
BiasEmpty ==
    /\ bias_table = None
    /\ bias_table' = Ok(<<>>)
    /\ UNCHANGED <<bias_input, bias_query, bias_got>>
    /\ UNCHANGED <<tokVars, pushed, pc, callVars, ldVars>>

BiasGet(tid) ==
    /\ bias_table.kind = "Ok"
    /\ bias_query' = tid
    /\ bias_got' = [kind |-> "Returned", ret |-> TokenBiasGet(bias_table.val, tid)]
    /\ UNCHANGED <<bias_input, bias_table>>
    /\ UNCHANGED <<tokVars, pushed, pc, callVars, ldVars>>

----------------------------------------------------------------------------
(* Gguf::load. The reader is the environment: each read step receives what   *)
(* the reader returns to it, drawn from the sets below. HashMaps are         *)
(* functions on their key sets.                                              *)

MaxTensors == 2     \* largest tensor_count in a stream
MaxKv == 2          \* largest metadata_kv_count in a stream
MaxPos == 65        \* largest stream position reported after the descriptors

\* pub const DEFAULT_ALIGNMENT: u32 = 32 (line 14)
DEFAULT_ALIGNMENT == 32

Gguf(version) == [format |-> "Gguf", version |-> version]

Containers == {Gguf(1), Gguf(2), Gguf(3), [format |-> "Ggjt", version |-> 1]}

Io == [name |-> "Io"]

\* results of ContainerType::read
HeaderReads ==
    {Err(Io), Err([name |-> "InvalidMagic", magic |-> "lmgg"])}
    \cup {Ok(c) : c \in Containers}

\* results of util::read_length
LengthReads(n) ==
    {Err(Io), Err([name |-> "InvalidIntegerConversion"])} \cup {Ok(k) : k \in 0 .. n}

CountReads ==
    [tensor_count : LengthReads(MaxTensors), metadata_kv_count : LengthReads(MaxKv)]

MetadataValues ==
    {[type |-> "UInt32", val |-> 0], [type |-> "UInt32", val |-> 7],
     [type |-> "UInt32", val |-> 16], [type |-> "UInt64", val |-> 8]}

\* results of MetadataValue::read_key_value
KvReads ==
    {Err(Io), Err([name |-> "InvalidUtf8"])}
    \cup {Ok(<<k, v>>) : k \in {"general.alignment", "general.name"}, v \in MetadataValues}

\* what the reader holds for one tensor descriptor: its fields, and the read
\* of read_name_value that fails with an I/O error, if any
TensorReads ==
    [fail_at : {"none", "name", "dimensions", "element_type", "offset"},
     name : {"t0", "t1"}, dimensions : {<<2>>}, element_type : {0, 99}, offset : {0}]

\* results of reader.stream_position()
PositionReads == {Err(Io)} \cup {Ok(p) : p \in 0 .. MaxPos}

\* the codes ElementType::try_from accepts (a closed enumeration)
ElementTypeCodes == {0, 1}

\* ElementType::try_from(element_type)
ElementTypeTryFrom(code) ==
    IF code \in ElementTypeCodes THEN Ok(code) ELSE Err([name |-> "TryFromError"])

\* MetadataValue::as_uint32
as_uint32(v) == IF v.type = "UInt32" THEN [kind |-> "Some", val |-> v.val] ELSE None

\* TensorInfo::read_name_value (lines 111-140); each ? returns the first error
read_name_value(raw) ==
    IF raw.fail_at = "name" THEN Err(Io)
    ELSE IF raw.fail_at = "dimensions" THEN Err(Io)
    ELSE IF raw.fail_at = "element_type" THEN Err(Io)
    ELSE LET element_type == ElementTypeTryFrom(raw.element_type) IN
         IF element_type.kind = "Err"
         THEN Err([name |-> "UnsupportedElementType",
                   tensor_name |-> raw.name, ftype |-> raw.element_type])
         ELSE IF raw.fail_at = "offset" THEN Err(Io)
         ELSE Ok(<<raw.name, [dimensions |-> raw.dimensions,
                              element_type |-> element_type.val,
                              offset |-> raw.offset]>>)

\* a version check that accepts every GGUF version
ContainerSupportedAnyVersion(container) == container.format = "Gguf"

\* the container versions load accepts (line 59)
ContainerSupported(container) == container \in {Gguf(1), Gguf(2)}

\* lines 76-79
Alignment(metadata) ==
    IF "general.alignment" \in DOMAIN metadata
    THEN LET v == as_uint32(metadata["general.alignment"]) IN
         IF v.kind = "Some" THEN v.val ELSE DEFAULT_ALIGNMENT
    ELSE DEFAULT_ALIGNMENT

\* the padding without its outer remainder: a full block when already aligned
AlignUpAlwaysPads(stream_position, alignment) ==
    stream_position + (alignment - (stream_position % alignment))

\* line 89, for alignment > 0
AlignUp(stream_position, alignment) ==
    stream_position + ((alignment - (stream_position % alignment)) % alignment)

\* return Err(e), by ? or explicitly
LoadFails(e) ==
    /\ ld_pc' = "failed"
    /\ ld_result' = Err(e)

\* where load goes on after the counts and after each loop iteration
LoopPc(counts, kv_read, tensors_read) ==
    IF kv_read < counts.metadata_kv_count THEN "metadata"
    ELSE IF tensors_read < counts.tensor_count THEN "tensors"
    ELSE "position"

\* lines 55-65
LoadHeader(r) ==
    /\ ld_pc = "header"
    /\ ld_read' = [step |-> "header", ret |-> r]
    /\ IF r.kind = "Err"
       THEN LoadFails(r.err) /\ UNCHANGED ld_ctx
       ELSE IF ~ContainerSupported(r.val)
            THEN LoadFails([name |-> "InvalidFormatVersion", container |-> r.val])
                 /\ UNCHANGED ld_ctx
            ELSE /\ ld_ctx' = [use_64_bit_length |-> r.val = Gguf(2)]
                 /\ ld_pc' = "counts"
                 /\ UNCHANGED ld_result
    /\ UNCHANGED <<ld_counts, ld_kv_read, ld_tensors_read, ld_metadata, ld_tensor_infos>>
    /\ UNCHANGED <<tokVars, pushed, pc, callVars, biasVars>>

\* lines 67-68
LoadCounts(r) ==
    /\ ld_pc = "counts"
    /\ ld_read' = [step |-> "counts", ret |-> r]
    /\ IF r.tensor_count.kind = "Err"
       THEN LoadFails(r.tensor_count.err) /\ UNCHANGED ld_counts
       ELSE IF r.metadata_kv_count.kind = "Err"
            THEN LoadFails(r.metadata_kv_count.err) /\ UNCHANGED ld_counts
            ELSE /\ ld_counts' = [tensor_count |-> r.tensor_count.val,
                                  metadata_kv_count |-> r.metadata_kv_count.val]
                 /\ ld_pc' = LoopPc(ld_counts', 0, 0)
                 /\ UNCHANGED ld_result
    /\ UNCHANGED <<ld_ctx, ld_kv_read, ld_tensors_read, ld_metadata, ld_tensor_infos>>
    /\ UNCHANGED <<tokVars, pushed, pc, callVars, biasVars>>

\* one iteration of the metadata loop (lines 71-74)
LoadMetadata(r) ==
    /\ ld_pc = "metadata"
    /\ ld_read' = [step |-> "metadata", ret |-> r]
    /\ IF r.kind = "Err"
       THEN LoadFails(r.err) /\ UNCHANGED <<ld_metadata, ld_kv_read>>
       ELSE /\ ld_metadata' = MapInsert(ld_metadata, r.val[1], r.val[2])
            /\ ld_kv_read' = ld_kv_read + 1
            /\ ld_pc' = LoopPc(ld_counts, ld_kv_read', ld_tensors_read)
            /\ UNCHANGED ld_result
    /\ UNCHANGED <<ld_ctx, ld_counts, ld_tensors_read, ld_tensor_infos>>
    /\ UNCHANGED <<tokVars, pushed, pc, callVars, biasVars>>

\* one iteration of the tensor loop (lines 82-85)
LoadTensor(raw) ==
    /\ ld_pc = "tensors"
    /\ ld_read' = [step |-> "tensors", ret |-> raw]
    /\ LET r == read_name_value(raw) IN
       IF r.kind = "Err"
       THEN LoadFails(r.err) /\ UNCHANGED <<ld_tensor_infos, ld_tensors_read>>
       ELSE /\ ld_tensor_infos' = MapInsert(ld_tensor_infos, r.val[1], r.val[2])
            /\ ld_tensors_read' = ld_tensors_read + 1
            /\ ld_pc' = LoopPc(ld_counts, ld_kv_read, ld_tensors_read')
            /\ UNCHANGED ld_result
    /\ UNCHANGED <<ld_ctx, ld_counts, ld_kv_read, ld_metadata>>
    /\ UNCHANGED <<tokVars, pushed, pc, callVars, biasVars>>

\* lines 87-96; a remainder by zero panics
LoadPosition(r) ==
    /\ ld_pc = "position"
    /\ ld_read' = [step |-> "position", ret |-> r]
    /\ IF r.kind = "Err"
       THEN LoadFails(r.err)
       ELSE IF Alignment(ld_metadata) = 0
            THEN /\ ld_pc' = "panicked"
                 /\ ld_result' = Panic("remainder with a divisor of zero")
            ELSE /\ ld_pc' = "done"
                 /\ ld_result' = Ok([metadata |-> ld_metadata,
                                     tensor_infos |-> ld_tensor_infos,
                                     tensor_data_position |->
                                         AlignUp(r.val, Alignment(ld_metadata))])
    /\ UNCHANGED <<ld_ctx, ld_counts, ld_kv_read, ld_tensors_read, ld_metadata,
                   ld_tensor_infos>>
    /\ UNCHANGED <<tokVars, pushed, pc, callVars, biasVars>>

----------------------------------------------------------------------------
(* Specification of the tokenizer: the vocabulary is built by push_token     *)
(* during load, then one text is tokenized and the returned ids decoded.    *)

Init ==
    /\ id_to_token = <<>>
    /\ id_to_token_score = <<>>
    /\ token_to_id = <<>>
    /\ max_token_length = 0
    /\ pushed = None
    /\ pc = "load"
    /\ text = <<>>
    /\ bos = FALSE
    /\ tok_result = None
    /\ dec_skip = FALSE
    /\ decoded = None
    /\ prompt = None
    /\ prompt_result = None
    /\ bias_input = <<>>
    /\ bias_table = None
    /\ bias_query = 0
    /\ bias_got = None
    /\ ld_pc = "header"
    /\ ld_read = [step |-> "none"]
    /\ ld_ctx = None
    /\ ld_counts = None
    /\ ld_kv_read = 0
    /\ ld_tensors_read = 0
    /\ ld_metadata = <<>>
    /\ ld_tensor_infos = <<>>
    /\ ld_result = None

Next ==
    \/ \E id \in PushIds, content \in TokenPool, score \in Scores :
          PushToken(id, content, score)
    \/ \E t \in Texts, b \in BOOLEAN : Tokenize(t, b)
    \/ \E skip \in BOOLEAN : Decode(skip)

Spec == Init /\ [][Next]_vars

\* the vocabulary is built, then one prompt is resolved against it
NextPrompt ==
    \/ \E id \in PushIds, content \in TokenPool, score \in Scores :
          PushToken(id, content, score)
    \/ \E p \in Prompts, b \in BOOLEAN : ToTokens(p, b)

SpecPrompt == Init /\ [][NextPrompt]_vars

\* a bias table is built once, from a list or empty, then looked up
NextBias ==
    \/ \E v \in BiasLists : BiasNew(v)
    \/ BiasEmpty
    \/ \E tid \in BiasQueries : BiasGet(tid)

SpecBias == Init /\ [][NextBias]_vars

\* one call of Gguf::load, read by read
NextGguf ==
    \/ \E r \in HeaderReads : LoadHeader(r)
    \/ \E r \in CountReads : LoadCounts(r)
    \/ \E r \in KvReads : LoadMetadata(r)
    \/ \E raw \in TensorReads : LoadTensor(raw)
    \/ \E r \in PositionReads : LoadPosition(r)

SpecGguf == Init /\ [][NextGguf]_vars

----------------------------------------------------------------------------
(* Vocabulary of the claims, defined on the forward index alone *)

\* the tokens of the vocabulary
VocabTokens == {id_to_token[k] : k \in 1 .. Len(id_to_token)}

RECURSIVE Concat(_)
\* the bytes of a sequence of (bytes, id) pairs, in order
Concat(pairs) == IF pairs = <<>> THEN <<>> ELSE Head(pairs)[1] \o Concat(Tail(pairs))

\* pairs is a partition of t into vocabulary tokens, each with an id of its bytes
IsPartition(pairs, t) ==
    /\ \A k \in 1 .. Len(pairs) :
          /\ pairs[k][2] < Len(id_to_token)
          /\ pairs[k][1] = id_to_token[pairs[k][2] + 1]
          /\ Len(pairs[k][1]) > 0
    /\ Concat(pairs) = t

RECURSIVE BestFrom(_, _)
\* the largest sum of squared token lengths over the partitions of t[i..] into
\* vocabulary tokens, -1 when there is none
BestFrom(t, i) ==
    IF i = Len(t) THEN 0
    ELSE LET cands == {sub_len * sub_len + BestFrom(t, i + sub_len) :
                         sub_len \in {l \in 1 .. Len(t) - i :
                                        /\ Sub(t, i, l) \in VocabTokens
                                        /\ BestFrom(t, i + l) >= 0}}
         IN IF cands = {} THEN -1
            ELSE CHOOSE m \in cands : \A c \in cands : c <= m

\* t has at least one partition into vocabulary tokens
Segmentable(t) == BestFrom(t, 0) >= 0

RECURSIVE TotalScore(_)
TotalScore(pairs) ==
    IF pairs = <<>> THEN 0
    ELSE Len(Head(pairs)[1]) * Len(Head(pairs)[1]) + TotalScore(Tail(pairs))

\* a tokenize(text, false) call has returned
TokenizedNoBos == pc \in {"tokenized", "decoded"} /\ ~bos

----------------------------------------------------------------------------
(* Claims *)

\* C1: for every vocabulary built by successful push_token calls and every
\* text that has a partition into its tokens, tokenize(text, false) succeeds
\* and decode(ids of the result, false) returns exactly the bytes of text.
C1_RoundTrip ==
    (TokenizedNoBos /\ Segmentable(text)) =>
        /\ tok_result.kind = "Ok"
        /\ (pc = "decoded" /\ ~dec_skip) => decoded = Ok(text)

\* C2: whenever the whole (non-empty) text is itself a vocabulary token,
\* whatever the scores and the ids, tokenize(text, false) succeeds and returns
\* exactly one pair: that token with an id of it.
C2_LongestMatch ==
    (TokenizedNoBos /\ text # <<>> /\ text \in VocabTokens) =>
        /\ tok_result.kind = "Ok"
        /\ Len(tok_result.val) = 1
        /\ tok_result.val[1][1] = text
        /\ tok_result.val[1][2] < Len(id_to_token)
        /\ id_to_token[tok_result.val[1][2] + 1] = text

\* one push_token call: with an id other than the vocabulary size it panics
\* and leaves every field as it was; with the right id it appends one token
\* at index id of both indexes and maps its bytes to id
C3_PushStep ==
    (pushed' # pushed \/ tokVars' # tokVars) =>
        IF pushed'.id # Len(id_to_token)
        THEN /\ pc' = "panicked"
             /\ UNCHANGED <<id_to_token, id_to_token_score, token_to_id, max_token_length>>
        ELSE /\ pc' = "load"
             /\ SubSeq(id_to_token', 1, pushed'.id) = id_to_token
             /\ SubSeq(id_to_token_score', 1, pushed'.id) = id_to_token_score
             /\ Len(id_to_token') = pushed'.id + 1
             /\ Len(id_to_token_score') = pushed'.id + 1
             /\ token_to_id'[id_to_token'[pushed'.id + 1]] = pushed'.id

\* C3: push_token(id, ..) with id different from the current vocabulary size
\* panics before any field is modified, so the ids are exactly 0..N-1 in
\* append order: every accepted push has id = N and lands at index N, and
\* the reverse index never holds an id outside 0..N-1.
C3_PushOrder ==
    /\ [](\A t \in DOMAIN token_to_id : token_to_id[t] < Len(id_to_token))
    /\ [][C3_PushStep]_vars

\* push_token(5, ..) on the empty vocabulary has panicked
C3_Witness ==
    /\ pc = "panicked"
    /\ pushed.kind = "Some"
    /\ pushed.id = 5
    /\ id_to_token = <<>>
    /\ DOMAIN token_to_id = {}

\* C9: for every vocabulary and every non-empty text that has at least one
\* partition into vocabulary tokens, tokenize(text, false) succeeds.
C9_FailsOnlyWithoutPartition ==
    (TokenizedNoBos /\ text # <<>> /\ Segmentable(text)) => tok_result.kind = "Ok"

\* the same, for vocabularies whose token 0 occurs nowhere in the text: the
\* failure does not need a token with id 0
FailsOnlyWithoutPartitionNoId0 ==
    (/\ TokenizedNoBos /\ text # <<>> /\ Segmentable(text)
     /\ id_to_token # <<>>
     /\ \A i \in 0 .. Len(text) - 1, l \in 1 .. Len(text) :
            i + l <= Len(text) => Sub(text, i, l) # id_to_token[1])
        => tok_result.kind = "Ok"

\* C10: whenever tokenize(text, false) succeeds, the result is a partition of
\* text into vocabulary tokens (each pair's bytes are id_to_token[id], and
\* concatenated they are text) whose sum of squared token lengths is the
\* largest over all partitions of text into vocabulary tokens.
C10_OptimalPartition ==
    (TokenizedNoBos /\ tok_result.kind = "Ok") =>
        /\ IsPartition(tok_result.val, text)
        /\ TotalScore(tok_result.val) = BestFrom(text, 0)

\* "aaaa" was split as "aa" + "aa" although "a" is a token too
C10_Witness ==
    /\ pc = "tokenized" /\ ~bos
    /\ text = <<97, 97, 97, 97>>
    /\ <<97>> \in VocabTokens
    /\ tok_result.kind = "Ok"
    /\ Len(tok_result.val) = 2
    /\ tok_result.val[1][1] = <<97, 97>>
    /\ tok_result.val[2][1] = <<97, 97>>

\* what C8 expects of an explicit token list: the first id outside the
\* vocabulary, if any
RECURSIVE FirstOutside(_, _)
FirstOutside(tokens, k) ==
    IF k > Len(tokens) THEN None
    ELSE IF tokens[k] >= Len(id_to_token) THEN [kind |-> "Some", val |-> tokens[k]]
    ELSE FirstOutside(tokens, k + 1)

\* C8: for a Prompt::Tokens(ids), to_tokens returns InvalidTokenId(t) for the
\* first id t that is not an id of the vocabulary (every t >= its size
\* included) and returns ids unchanged when every id is in the vocabulary.
C8_InvalidTokenId ==
    (pc \in {"resolved", "panicked"} /\ prompt.kind = "Tokens") =>
        LET first == FirstOutside(prompt.tokens, 1) IN
        IF first.kind = "Some"
        THEN prompt_result = Err([name |-> "InvalidTokenId", id |-> first.val])
        ELSE prompt_result = Ok(prompt.tokens)

\* the first pair of v whose id is tid
FirstWithId(v, tid) == v[CHOOSE k \in 1 .. Len(v) :
                           /\ v[k][1] = tid
                           /\ \A j \in 1 .. k - 1 : v[j][1] # tid]

\* C4: for every list v, TokenBias::new(v) holds pairs with strictly
\* increasing ids, the set of its ids is the set of ids of v, and the pair kept
\* for an id is the first pair of v with that id.
C4_SortedFirstWins ==
    bias_table.kind = "Ok" =>
        LET tb == bias_table.val IN
        /\ \A k \in 1 .. Len(tb) - 1 : tb[k][1] < tb[k + 1][1]
        /\ {tb[k][1] : k \in 1 .. Len(tb)} = {bias_input[k][1] : k \in 1 .. Len(bias_input)}
        /\ \A k \in 1 .. Len(tb) : tb[k] = FirstWithId(bias_input, tb[k][1])

\* TokenBias::new([(2,0.5),(1,-1.0),(2,0.9)]) is [(1,-1.0),(2,0.5)]
C4_Witness ==
    /\ bias_input = <<<<2, 5>>, <<1, -10>>, <<2, 9>>>>
    /\ bias_table = Ok(<<<<1, -10>>, <<2, 5>>>>)

\* C5: for every table built by TokenBias::new or TokenBias::empty and every
\* id t, get(t) returns the bias stored for t when the table has a pair with
\* id t and None when it has none; get never modifies the table.
C5_GetFindsStored ==
    /\ [](bias_got.kind = "Returned" =>
            LET tb == bias_table.val
                hits == {k \in 1 .. Len(tb) : tb[k][1] = bias_query}
            IN IF hits = {} THEN bias_got.ret = None
               ELSE \A k \in hits : bias_got.ret = [kind |-> "Some", val |-> tb[k][2]])
    /\ [][(bias_got' # bias_got \/ bias_query' # bias_query) =>
            (bias_table' = bias_table /\ bias_table.kind = "Ok")]_vars

\* get found the bias of the last of three ids, and missed an absent id
C5_Witness ==
    /\ bias_table.kind = "Ok"
    /\ Len(bias_table.val) = 3
    /\ bias_query = 3
    /\ bias_got = [kind |-> "Returned", ret |-> [kind |-> "Some", val |-> 9]]

\* the alignment C6 names: the value of general.alignment when it is present
\* as an unsigned 32-bit integer, 32 otherwise
ClaimedAlignment(metadata) ==
    IF /\ "general.alignment" \in DOMAIN metadata
       /\ metadata["general.alignment"].type = "UInt32"
    THEN metadata["general.alignment"].val
    ELSE 32

\* C6: for every successful Gguf::load, tensor_data_position is the smallest
\* value >= pos that is a multiple of alignment, pos being the stream position
\* after the last tensor descriptor.
C6_AlignedDataStart ==
    ld_result.kind = "Ok" =>
        LET pos == ld_read.ret.val
            alignment == ClaimedAlignment(ld_result.val.metadata)
            start == ld_result.val.tensor_data_position
        IN /\ alignment > 0
           /\ start >= pos
           /\ start % alignment = 0
           /\ \A q \in pos .. start - 1 : q % alignment # 0

\* pos = 33 under the default alignment gives 64
C6_Witness ==
    /\ ld_result.kind = "Ok"
    /\ "general.alignment" \notin DOMAIN ld_result.val.metadata
    /\ ld_read.ret.val = 33
    /\ ld_result.val.tensor_data_position = 64

\* the error of a read step, None when the step succeeded
StepError(rd) ==
    LET Some(e) == [kind |-> "Some", val |-> e] IN
    CASE rd.step = "header" ->
           IF rd.ret.kind = "Err" THEN Some(rd.ret.err)
           ELSE IF rd.ret.val.format # "Gguf" \/ rd.ret.val.version \notin {1, 2}
                THEN Some([name |-> "InvalidFormatVersion", container |-> rd.ret.val])
                ELSE None
      [] rd.step = "counts" ->
           IF rd.ret.tensor_count.kind = "Err" THEN Some(rd.ret.tensor_count.err)
           ELSE IF rd.ret.metadata_kv_count.kind = "Err"
                THEN Some(rd.ret.metadata_kv_count.err)
                ELSE None
      [] rd.step = "tensors" ->
           IF rd.ret.fail_at \in {"name", "dimensions", "element_type"} THEN Some(Io)
           ELSE IF rd.ret.element_type \notin ElementTypeCodes
                THEN Some([name |-> "UnsupportedElementType",
                           tensor_name |-> rd.ret.name, ftype |-> rd.ret.element_type])
                ELSE IF rd.ret.fail_at = "offset" THEN Some(Io) ELSE None
      [] rd.step \in {"metadata", "position"} ->
           IF rd.ret.kind = "Err" THEN Some(rd.ret.err) ELSE None
      [] OTHER -> None

StepRank(rd) ==
    CASE rd.step = "none" -> 0
      [] rd.step = "header" -> 1
      [] rd.step = "counts" -> 2
      [] rd.step = "metadata" -> 3
      [] rd.step = "tensors" -> 4
      [] rd.step = "position" -> 5

\* what holds of load in every state: a failing step's error is returned and
\* nothing else is; a Container is returned only after every step succeeded
C7_Outcome ==
    /\ StepError(ld_read).kind = "Some" =>
          (ld_pc = "failed" /\ ld_result = Err(StepError(ld_read).val))
    /\ ld_result.kind = "Err" => (ld_pc = "failed" /\ StepError(ld_read).kind = "Some")
    /\ ld_result.kind = "Ok" =>
          /\ ld_pc = "done"
          /\ ld_read.step = "position"
          /\ ld_kv_read = ld_counts.metadata_kv_count
          /\ ld_tensors_read = ld_counts.tensor_count
    /\ ld_pc \notin {"done", "failed", "panicked"} => ld_result = None

\* what holds of every step of load: the steps come in the order header,
\* counts, metadata entries, tensor descriptors, position, each loop within
\* its count, and no step follows a failed one or the return
C7_Order ==
    (ldVars' # ldVars) =>
        /\ ld_pc \notin {"done", "failed", "panicked"}
        /\ StepError(ld_read).kind = "None"
        /\ StepRank(ld_read') >= StepRank(ld_read)
        /\ StepRank(ld_read) <= 1 => StepRank(ld_read') = StepRank(ld_read) + 1
        /\ StepRank(ld_read') = StepRank(ld_read) => ld_read'.step \in {"metadata", "tensors"}
        /\ ld_read'.step = "metadata" => ld_kv_read < ld_counts.metadata_kv_count
        /\ ld_read'.step = "tensors" =>
              /\ ld_kv_read = ld_counts.metadata_kv_count
              /\ ld_tensors_read < ld_counts.tensor_count
        /\ ld_read'.step = "position" =>
              /\ ld_kv_read = ld_counts.metadata_kv_count
              /\ ld_tensors_read = ld_counts.tensor_count

\* C7: Gguf::load runs header, counts, metadata entries, tensor descriptors in
\* that order and aborts at the first failing step: it returns the error of
\* that step (InvalidMagic, InvalidFormatVersion for a version other than 1
\* or 2, UnsupportedElementType with the tensor name and the raw code),
\* executes no later step and returns no Container; a Container is returned
\* only when every step succeeded.
C7_AbortsAtFirstFailure == []C7_Outcome /\ [][C7_Order]_vars

\* the second tensor descriptor had an unrecognized element type: load failed
\* with that tensor's name and code, after one tensor had been read
C7_Witness ==
    /\ ld_pc = "failed"
    /\ ld_read.step = "tensors"
    /\ ld_tensors_read = 1
    /\ ld_result = Err([name |-> "UnsupportedElementType",
                        tensor_name |-> ld_read.ret.name, ftype |-> 99])

----------------------------------------------------------------------------
(* The two indexes and the derived fields of the vocabulary *)

\* C11: after any sequence of successful push_token calls the reverse index
\* holds exactly the entries of the forward index: every id i < N satisfies
\* token_to_id[id_to_token[i]] = i, and token_to_id has exactly N entries.
C11_ReverseIndexExact ==
    /\ \A k \in 1 .. Len(id_to_token) :
           /\ id_to_token[k] \in DOMAIN token_to_id
           /\ token_to_id[id_to_token[k]] = k - 1
    /\ Cardinality(DOMAIN token_to_id) = Len(id_to_token)

\* the largest byte length in a sequence of tokens, 0 for the empty sequence
LongestOf(tokens) ==
    IF tokens = <<>> THEN 0
    ELSE CHOOSE m \in {Len(tokens[k]) : k \in 1 .. Len(tokens)} :
             \A k \in 1 .. Len(tokens) : Len(tokens[k]) <= m

\* C12: in every state reachable by push_token calls from the empty
\* vocabulary, id_to_token and id_to_token_score have equal length and
\* max_token_length is the maximum byte length over the tokens appended so
\* far (0 when none).
C12_LengthsAndMax ==
    /\ Len(id_to_token) = Len(id_to_token_score)
    /\ max_token_length = LongestOf(id_to_token)

\* three tokens were appended, the longest first and the empty one last
C12_Witness ==
    /\ Len(id_to_token) = 3
    /\ Len(id_to_token[1]) = 3
    /\ Len(id_to_token[3]) = 0
    /\ max_token_length = 3

\* C13: whenever tokenize(text, false) succeeds with r, tokenize(text, true)
\* succeeds with the pair (empty bytes, 1) followed by r: the pair comes
\* first, occurs exactly once (also for the empty text), and the tokens the
\* DP pass selects are the same.
C13_BosPrepended ==
    (pc \in {"tokenized", "decoded"} /\ bos) =>
        LET r == tokenize(text, FALSE) IN
        r.kind = "Ok" =>
            /\ tok_result = Ok(<<<<<<>>, 1>>>> \o r.val)
            /\ Cardinality({k \in 1 .. Len(tok_result.val) :
                               tok_result.val[k] = <<<<>>, 1>>}) = 1

\* a two-byte text was tokenized with the beginning-of-sequence pair into
\* that pair and two tokens
C13_Witness ==
    /\ pc = "tokenized"
    /\ bos
    /\ Len(text) = 2
    /\ tok_result.kind = "Ok"
    /\ Len(tok_result.val) = 3
    /\ tok_result.val[1] = <<<<>>, 1>>

====
